---- MODULE Spec2Model ----
(***************************************************************************)
(* The analysis pipeline of janzmazek/cell-networks: the two Data classes  *)
(* (src/langerhans/data.py and src/src/data.py) as one state machine.      *)
(* `variant` says which class the object is an instance of.                *)
(*                                                                         *)
(* Conventions.                                                            *)
(*  - Python's sentinel False of a field is the empty tuple `False`; a     *)
(*    field that holds a value v is <<v>>.                                 *)
(*  - Cell indices of the API are 0-based as in Python; row i of a matrix  *)
(*    is element i+1 of the TLA+ sequence.                                 *)
(*  - Amplitudes are fixed-point integers, 4 units = 1.0; times are in     *)
(*    milliseconds; frequencies in millihertz; the spike fraction in       *)
(*    percent.  Traces are decimated to a handful of samples.              *)
(*  - Every action is one whole call of a method; `err` is the exception   *)
(*    the call ended with ("ok" for none).                                 *)
(*  - mean_islet (langerhans) is a pure function of signal that only the   *)
(*    plots read; it is not a variable here.                               *)
(***************************************************************************)
EXTENDS Integers, Sequences, FiniteSets, TLC

VARIABLES variant, signal, time, positions, settings, points, cells,
          filtered_slow, filtered_fast, distributions,
          binarized_slow, binarized_fast, activity, good_cells,
          err,
          current_stage, current_number

vars == <<variant, signal, time, positions, settings, points, cells,
          filtered_slow, filtered_fast, distributions,
          binarized_slow, binarized_fast, activity, good_cells,
          err, current_stage, current_number>>

\* The fields of the Controller that drives a Data object of src: the stage
\* whose figure is shown (0 start, 1 import, 2 filter, 3 distribute,
\* 4 binarize) and the cell that is shown.
controller == <<current_stage, current_number>>

\* The fields of the Data object.
data == <<signal, time, positions, settings, points, cells,
          filtered_slow, filtered_fast, distributions,
          binarized_slow, binarized_fast, activity, good_cells>>

\* The derived artifacts and the quality flags.
derived == <<filtered_slow, filtered_fast, distributions,
             binarized_slow, binarized_fast, activity, good_cells>>

-----------------------------------------------------------------------------
\* Bounds of the model.
MaxCells == 2

-----------------------------------------------------------------------------
\* Python values.
False == <<>>
Some(v) == <<v>>
IsFalse(f) == f = False
\* int(False) = 0: range(self.__cells) and np.zeros((cells, points)) before import.
AsInt(f) == IF IsFalse(f) THEN 0 ELSE f[1]

Range(n) == 0 .. (n - 1)
Max(S) == CHOOSE x \in S : \A y \in S : y <= x
Min(S) == CHOOSE x \in S : \A y \in S : x <= y
Abs(x) == IF x < 0 THEN -x ELSE x
Values(s) == {s[i] : i \in DOMAIN s}
Zeros(n) == [i \in 1 .. n |-> 0]
ZerosMatrix(r, c) == [i \in 1 .. r |-> Zeros(c)]
Ones(n) == [i \in 1 .. n |-> TRUE]
Add(a, b) == [i \in DOMAIN a |-> a[i] + b[i]]

RECURSIVE SeqsOfLen(_, _)
SeqsOfLen(S, n) ==
    IF n = 0 THEN {<<>>}
    ELSE {Append(s, x) : s \in SeqsOfLen(S, n - 1), x \in S}

-----------------------------------------------------------------------------
\* Inputs.

\* The traces a cell can have: a slow oscillation plus a fast spike train.
\*  active    two slow extrema, spikes after the stimulation
\*  quiet     two slow extrema, no positive fast sample
\*  drifting  a monotone slow component (no extremum), spikes
Active == [slow |-> <<0, 2, 4, 2, 0, 2>>, fast |-> <<2, 0, 0, 8, 4, 8>>]
Quiet == [slow |-> <<0, 2, 4, 2, 0, 2>>, fast |-> <<0, -4, 0, -4, 0, -4>>]
Drifting == [slow |-> <<0, 1, 2, 3, 4, 5>>, fast |-> <<2, 0, 0, 8, 4, 8>>]
CellKinds == {Active, Quiet, Drifting}

\* Two more slow components: one that turns at its second sample, and one
\* that turns once only.
Early == [slow |-> <<0, 2, 0, 2, 4, 2>>, fast |-> <<2, 0, 0, 8, 4, 8>>]
Single == [slow |-> <<0, 1, 2, 3, 2, 1>>, fast |-> <<2, 0, 0, 8, 4, 8>>]

\* A longer cell: its slow component falls to sample 9, rises to sample 40,
\* falls to sample 69 and rises to the end.
LongPoints == 80
Long ==
    [slow |-> [i \in 1 .. LongPoints |->
                  IF i - 1 <= 9 THEN 9 - (i - 1)
                  ELSE IF i - 1 <= 40 THEN (i - 1) - 9
                  ELSE IF i - 1 <= 69 THEN 71 - (i - 1)
                  ELSE (i - 1) - 67],
     fast |-> [i \in 1 .. LongPoints |-> IF (i % 4) = 0 THEN 8 ELSE 0]]

TraceKinds == CellKinds \cup {Early, Single}

\* The tone of each component, in mHz.
Tones == [slow |-> 3, fast |-> 100]

Raw(kind) == Add(kind.slow, kind.fast)

\* The file of a recording: one row per sample, the time in column 0 and one
\* column per cell after it.
MakeSeries(kinds) ==
    [t \in 1 .. Len(Raw(kinds[1])) |->
        <<t - 1>> \o [c \in 1 .. Len(kinds) |-> Raw(kinds[c])[t]]]

\* The numbers of cells tried: the largest and the one below it.
CellCounts == {n \in {MaxCells - 1, MaxCells} : n >= 1}

\* Recordings whose cells are all active, but possibly the last.
RecordingKinds ==
    {[c \in 1 .. n |-> IF c < n THEN Active ELSE k] :
        n \in CellCounts, k \in CellKinds}

Recordings == {[ndim |-> 2, data |-> MakeSeries(k)] : k \in RecordingKinds}

\* A recording file with a single column of numbers loads as a 1-D array
\* (ndim says so; data lists its numbers one per row).
FlatSeries == [ndim |-> 1, data |-> <<<<0>>, <<1>>, <<2>>, <<3>>, <<4>>, <<5>>>>]

SeriesInputs == Recordings \cup {FlatSeries}

\* series<N>.dat as np.loadtxt returns it: the controller drops its last
\* row before it hands the recording to Data.  The files are recordings of
\* active cells, of a single drifting cell, and the 1-D one.
SeriesFile(kinds) ==
    LET rows == MakeSeries(kinds)
    IN [ndim |-> 2,
        data |-> Append(rows, <<Len(rows)>> \o Zeros(Len(kinds)))]

SeriesFiles ==
    {SeriesFile([c \in 1 .. n |-> Active]) : n \in CellCounts}
        \cup {SeriesFile(<<Drifting>>), FlatSeries}

\* Recordings of every mix of cells, and the recording of the long cell.
WideRecordings ==
    {[ndim |-> 2, data |-> MakeSeries(k)] :
        k \in UNION {[1 .. n -> TraceKinds] : n \in CellCounts} \cup {<<Long>>}}

\* positions<N>.dat: one (x, y) row per cell.
PositionInputs == {[i \in 1 .. n |-> <<i, i>>] : n \in CellCounts}

\* The default settings of langerhans (the stimulation frame decimated with
\* the traces, the bands in mHz, the spike fraction in percent).
SAMPLE_SETTINGS ==
    [ glucose |-> 8,
      sampling |-> 10,
      stimulation |-> <<2, 0>>,
      filter |-> [slow |-> <<1, 5>>, fast |-> <<40, 400>>, plot |-> <<250, 1750>>],
      distribution_order |-> 5,
      exclude |-> [score_threshold |-> 1, spikes_threshold |-> 1],
      distance |-> 1 ]

\* A fast band above the Nyquist frequency (5000 mHz at 10 Hz).
BadFastSettings ==
    [SAMPLE_SETTINGS EXCEPT !.filter.fast = <<40, 6000>>]

SettingsInputs == {SAMPLE_SETTINGS, BadFastSettings}

\* A spike fraction of 80 percent.
StrictSettings ==
    [SAMPLE_SETTINGS EXCEPT !.exclude.spikes_threshold = 80]

WideSettingsInputs == {SAMPLE_SETTINGS, StrictSettings}

\* Settings files with keys missing: one without the distance, and an empty
\* one.
NoDistanceSettings ==
    [k \in DOMAIN SAMPLE_SETTINGS \ {"distance"} |-> SAMPLE_SETTINGS[k]]
EmptySettings == [k \in {} |-> 0]

KeySettingsInputs == {SAMPLE_SETTINGS, NoDistanceSettings, EmptySettings}

\* The indices exclude/unexclude are tried with: the first and the last cell
\* of the largest recording, and the index before and after them.
IndexInputs == {-1, 0, MaxCells - 1, MaxCells}

-----------------------------------------------------------------------------
\* numpy helpers.

\* series[:, 1:].transpose()
DropFirstColumn(m) == [t \in DOMAIN m |-> Tail(m[t])]
Transpose(m) ==
    IF Len(m) = 0 THEN <<>>
    ELSE [c \in 1 .. Len(m[1]) |-> [t \in 1 .. Len(m) |-> m[t][c]]]

\* np.arange(n)*(1/sampling), in ms
TimeAxis(n, sampling) == [i \in 1 .. n |-> ((i - 1) * 1000) \div sampling]


-----------------------------------------------------------------------------
Init ==
    /\ variant \in {"langerhans", "src"}
    /\ signal = False
    /\ time = False
    /\ positions = False
    /\ settings = False
    /\ points = False
    /\ cells = False
    /\ filtered_slow = False
    /\ filtered_fast = False
    /\ distributions = False
    /\ binarized_slow = False
    /\ binarized_fast = False
    /\ activity = False
    /\ good_cells = False
    /\ err = "ok"
    /\ current_stage = 0
    /\ current_number = 0

-----------------------------------------------------------------------------
\* The pipeline holds no derived artifact: a new object, or one after
\* reset_computations().  Sessions import their recordings into such a
\* pipeline, except where a specification says otherwise.
Fresh ==
    /\ IsFalse(filtered_slow) /\ IsFalse(filtered_fast) /\ IsFalse(distributions)
    /\ IsFalse(binarized_slow) /\ IsFalse(binarized_fast) /\ IsFalse(activity)

\* Data.import_data(signal) of langerhans.
import_data_langerhans(series) ==
    /\ variant = "langerhans"
    /\ UNCHANGED <<variant, positions, filtered_slow, filtered_fast, distributions,
                   binarized_slow, binarized_fast, activity>>
    /\ IF series.ndim # 2
       THEN /\ err' = "ValueError: Signal shape not 2D."
            /\ UNCHANGED <<signal, time, settings, points, cells, good_cells>>
       ELSE LET sig == Transpose(DropFirstColumn(series.data))
                set == IF IsFalse(settings) THEN SAMPLE_SETTINGS ELSE settings[1]
            IN /\ signal' = Some(sig)
               /\ settings' = Some(set)
               /\ time' = Some(TimeAxis(Len(sig[1]), set.sampling))
               /\ points' = Some(Len(sig[1]))
               /\ cells' = Some(Len(sig))
               /\ good_cells' = Some(Ones(Len(sig)))
               /\ err' = "ok"

\* Data.__check_arguments of src.
check_arguments(sig, pos) ==
    IF Len(pos) # Len(sig) THEN "ValueError: Number of cells in positions and signal is different." ELSE "ok"

\* Data.import_data(series, positions, settings) of src.
import_data_src(series, pos, set) ==
    /\ variant = "src"
    /\ UNCHANGED <<variant, filtered_slow, filtered_fast, distributions,
                   binarized_slow, binarized_fast, activity>>
    /\ IF series.ndim # 2
       THEN \* series[:,1:] of a 1-D array: too many indices
            /\ err' = "IndexError"
            /\ UNCHANGED <<signal, time, positions, settings, points, cells, good_cells>>
       ELSE LET sig == Transpose(DropFirstColumn(series.data))
                e == check_arguments(sig, pos)
            IN /\ signal' = Some(sig)
               /\ time' = Some(TimeAxis(Len(sig[1]), set.sampling))
               /\ positions' = Some(pos)
               /\ settings' = Some(set)
               /\ err' = e
               /\ IF e = "ok"
                  THEN /\ points' = Some(Len(sig[1]))
                       /\ cells' = Some(Len(sig))
                       /\ good_cells' = Some(Ones(Len(sig)))
                  ELSE UNCHANGED <<points, cells, good_cells>>

\* `key in settings`
HasKey(set, key) == key \in DOMAIN set

\* The checks of langerhans' import_settings(): each raises only when every
\* key it names is absent, and a dict it indexes must be there.  src has no
\* checks.
settings_error(set) ==
    IF variant = "src" THEN "ok"
    ELSE IF \A k \in {"sampling", "stimulation", "filter", "exclude", "distance"} :
               ~HasKey(set, k)
         THEN "ValueError: Bad keys in settings."
    ELSE IF ~HasKey(set, "filter") THEN "KeyError"
    ELSE IF \A k \in {"slow", "fast", "plot"} : ~HasKey(set.filter, k)
         THEN "ValueError: Bad keys in settings[filter]."
    ELSE IF ~HasKey(set, "exclude") THEN "KeyError"
    ELSE IF \A k \in {"score_threshold", "spikes_threshold"} :
               ~HasKey(set.exclude, k)
         THEN "ValueError: Bad keys in settings[exclude]."
    ELSE "ok"

\* Data.import_settings(settings)
import_settings(set) ==
    /\ err' = settings_error(set)
    /\ settings' = (IF settings_error(set) = "ok" THEN Some(set) ELSE settings)
    /\ UNCHANGED <<variant, signal, time, positions, points, cells,
                   filtered_slow, filtered_fast, distributions,
                   binarized_slow, binarized_fast, activity, good_cells>>

\* reset_computations() forgetting the fast binarized matrix.
reset_keeping_binarized_fast ==
    /\ filtered_slow' = False
    /\ filtered_fast' = False
    /\ distributions' = False
    /\ binarized_slow' = False
    /\ activity' = False
    /\ good_cells' = Some(Ones(AsInt(cells)))
    /\ err' = "ok"
    /\ UNCHANGED <<variant, signal, time, positions, settings, points, cells,
                   binarized_fast>>

\* reset_computations() leaving the quality flags as they are.
reset_keeping_flags ==
    /\ filtered_slow' = False
    /\ filtered_fast' = False
    /\ distributions' = False
    /\ binarized_slow' = False
    /\ binarized_fast' = False
    /\ activity' = False
    /\ err' = "ok"
    /\ UNCHANGED <<variant, signal, time, positions, settings, points, cells,
                   good_cells>>

\* Data.reset_computations().  src has no activity field: it stays False.
reset_computations ==
    /\ filtered_slow' = False
    /\ filtered_fast' = False
    /\ distributions' = False
    /\ binarized_slow' = False
    /\ binarized_fast' = False
    /\ activity' = False
    /\ good_cells' = Some(Ones(AsInt(cells)))
    /\ err' = "ok"
    /\ UNCHANGED <<variant, signal, time, positions, settings, points, cells>>

-----------------------------------------------------------------------------
\* Filter.

\* The cell kind a raw trace belongs to (the raw traces of CellKinds differ).
Decompose(trace) == CHOOSE k \in TraceKinds \cup {Long} : Raw(k) = trace

\* butter() accepts the band when 0 < Wn < 1 for both edges (Wn = f / nyq,
\* nyq = 0.5 * sampling) and the low edge is below the high edge.
BandValid(lowcut, highcut, sampling) ==
    LET nyq == 500 * sampling
    IN /\ 0 < lowcut /\ lowcut < nyq
       /\ 0 < highcut /\ highcut < nyq
       /\ lowcut < highcut

Passes(tone, lowcut, highcut) == lowcut <= tone /\ tone <= highcut

\* Data.__bandpass(data, lowcut, highcut): butter + sosfiltfilt as an ideal
\* band-pass filter: the components of the trace whose tone lies in the band.
bandpass(trace, lowcut, highcut) ==
    LET k == Decompose(trace)
        z == Zeros(Len(trace))
    IN Add(IF Passes(Tones.slow, lowcut, highcut) THEN k.slow ELSE z,
           IF Passes(Tones.fast, lowcut, highcut) THEN k.fast ELSE z)

\* matrix[i] = row: the row must exist and have the matrix's row length.
SetRowError(matrix, i, row) ==
    IF i + 1 > Len(matrix) THEN "IndexError"
    ELSE IF Len(row) # Len(matrix[i + 1]) THEN "ValueError"
    ELSE "ok"

\* The loop of Data.filter() from cell i on; st = [err, slow, fast].
RECURSIVE filter_loop(_, _, _, _, _)
filter_loop(i, n, sig, set, st) ==
    IF i >= n \/ st.err # "ok" THEN st
    ELSE IF i + 1 > Len(sig) THEN [st EXCEPT !.err = "IndexError"]
    ELSE IF ~BandValid(set.filter.slow[1], set.filter.slow[2], set.sampling)
         THEN [st EXCEPT !.err = "ValueError: Digital filter critical frequencies must be 0 < Wn < 1"]
    ELSE LET srow == bandpass(sig[i + 1], set.filter.slow[1], set.filter.slow[2])
             e1 == SetRowError(st.slow, i, srow)
         IN IF e1 # "ok" THEN [st EXCEPT !.err = e1]
            ELSE LET st1 == [st EXCEPT !.slow[i + 1] = srow]
                 IN IF ~BandValid(set.filter.fast[1], set.filter.fast[2], set.sampling)
                    THEN [st1 EXCEPT !.err = "ValueError: Digital filter critical frequencies must be 0 < Wn < 1"]
                    ELSE LET frow == bandpass(sig[i + 1], set.filter.fast[1],
                                              set.filter.fast[2])
                             e2 == SetRowError(st1.fast, i, frow)
                         IN IF e2 # "ok" THEN [st1 EXCEPT !.err = e2]
                            ELSE filter_loop(i + 1, n, sig, set,
                                             [st1 EXCEPT !.fast[i + 1] = frow])

\* filter() allocating its output before it looks for the recording.
filter_allocating_first ==
    /\ UNCHANGED <<variant, signal, time, positions, settings, points, cells,
                   distributions, binarized_slow, binarized_fast, activity,
                   good_cells>>
    /\ LET z == ZerosMatrix(AsInt(cells), AsInt(points))
       IN IF IsFalse(signal)
          THEN /\ filtered_slow' = Some(z)
               /\ filtered_fast' = Some(z)
               /\ err' = "ValueError: No imported data!"
          ELSE LET st == filter_loop(0, AsInt(cells), signal[1], settings[1],
                                    [err |-> "ok", slow |-> z, fast |-> z])
               IN /\ filtered_slow' = Some(st.slow)
                  /\ filtered_fast' = Some(st.fast)
                  /\ err' = st.err

\* Data.filter()
filter ==
    /\ UNCHANGED <<variant, signal, time, positions, settings, points, cells,
                   distributions, binarized_slow, binarized_fast, activity,
                   good_cells>>
    /\ IF IsFalse(signal)
       THEN /\ err' = "ValueError: No imported data!"
            /\ UNCHANGED <<filtered_slow, filtered_fast>>
       ELSE LET z == ZerosMatrix(AsInt(cells), AsInt(points))
                st == filter_loop(0, AsInt(cells), signal[1], settings[1],
                                  [err |-> "ok", slow |-> z, fast |-> z])
            IN /\ filtered_slow' = Some(st.slow)
               /\ filtered_fast' = Some(st.fast)
               /\ err' = st.err

\* Data.smooth_fast() of src: no settings of this model has a "smooth" key, so
\* the first line raises (on False settings, a TypeError).
smooth_fast ==
    /\ variant = "src"
    /\ err' = (IF IsFalse(settings) THEN "TypeError" ELSE "KeyError")
    /\ UNCHANGED <<variant, signal, time, positions, settings, points, cells,
                   filtered_slow, filtered_fast, distributions,
                   binarized_slow, binarized_fast, activity, good_cells>>

-----------------------------------------------------------------------------
\* Distributions.

\* The value of 0/0: a trace of zeros divided by its largest magnitude.
NaN == -(2 ^ 20)
IsNaN(x) == x = NaN

RECURSIVE SumOver(_, _, _)
SumOver(s, i, power) ==
    IF i > Len(s) THEN 0 ELSE (s[i] ^ power) + SumOver(s, i + 1, power)

\* What skew, np.mean and np.std are computed from: the count and the power
\* sums of the samples (nan: some sample is NaN, or there is none).
Moments(s) ==
    IF Len(s) = 0 \/ \E i \in DOMAIN s : IsNaN(s[i])
    THEN [nan |-> TRUE, n |-> Len(s), s1 |-> 0, s2 |-> 0, s3 |-> 0]
    ELSE [nan |-> FALSE,
          n |-> Len(s),
          s1 |-> SumOver(s, 1, 1),
          s2 |-> SumOver(s, 1, 2),
          s3 |-> SumOver(s, 1, 3)]

\* n^2 * variance and n^3 * (third central moment), so that
\*   std  = sqrt(VarN2) / n      skew = CubeN3 / VarN2^(3/2)
VarN2(m) == m.n * m.s2 - m.s1 * m.s1
CubeN3(m) == m.n * m.n * m.s3 - 3 * m.n * m.s1 * m.s2 + 2 * m.s1 * m.s1 * m.s1

\* signal /= np.max(np.abs(signal)): 4 units = 1.0
Normalise(s) ==
    LET m == Max({Abs(s[i]) : i \in DOMAIN s})
    IN IF m = 0 \/ (\E i \in DOMAIN s : IsNaN(s[i]))
       THEN [i \in DOMAIN s |-> NaN]
       ELSE [i \in DOMAIN s |-> (s[i] * 4) \div m]

\* The loop of langerhans' compute_distributions() from `cell` on;
\* st = [err, fast, dist].  The row of filtered_fast is normalised in place;
\* np.histogram raises on a NaN trace, after the params are stored.
RECURSIVE distributions_loop_langerhans(_, _, _, _)
distributions_loop_langerhans(cell, n, set, st) ==
    IF cell >= n \/ st.err # "ok" THEN st
    ELSE IF cell + 1 > Len(st.fast) THEN [st EXCEPT !.err = "IndexError"]
    ELSE LET sig == Normalise(st.fast[cell + 1])
             stimulation == set.stimulation[1]
             noise == SubSeq(sig, 1, stimulation)
             spikes == SubSeq(sig, stimulation + 1, Len(sig))
             params == [noise_params |-> Moments(noise),
                        spikes_params |-> Moments(spikes)]
             hist == ~Moments(noise).nan /\ ~Moments(spikes).nan
             st1 == [st EXCEPT !.fast[cell + 1] = sig,
                               !.dist[cell + 1] =
                                   Some([params |-> params, hist |-> hist])]
         IN IF ~hist THEN [st1 EXCEPT !.err = "ValueError: autodetected range of [nan, nan] is not finite"]
            ELSE distributions_loop_langerhans(cell + 1, n, set, st1)

\* Data.compute_distributions() of langerhans
compute_distributions_langerhans ==
    /\ variant = "langerhans"
    /\ UNCHANGED <<variant, signal, time, positions, settings, points, cells,
                   filtered_slow, binarized_slow, binarized_fast, activity,
                   good_cells>>
    /\ IF IsFalse(filtered_slow)
       THEN /\ err' = "ValueError: No filtered data."
            /\ UNCHANGED <<filtered_fast, distributions>>
       ELSE LET st == distributions_loop_langerhans(0, AsInt(cells), settings[1],
                          [err |-> "ok", fast |-> filtered_fast[1],
                           dist |-> [i \in 1 .. AsInt(cells) |-> False]])
            IN /\ filtered_fast' = Some(st.fast)
               /\ distributions' = Some(st.dist)
               /\ err' = st.err

\* np.clip(signal, 0, None)
Clip(s) == [i \in DOMAIN s |-> IF s[i] < 0 THEN 0 ELSE s[i]]

\* bins[-1] of np.histogram(signal, 50): the largest sample, or half a unit
\* (2) above it when all samples are equal.
LastBinEdge(s) ==
    IF Cardinality(Values(s)) = 1 THEN Max(Values(s)) + 2 ELSE Max(Values(s))

\* np.roots(second_derivative) of the polynomial fitted to the log of the
\* reverse cumulative histogram: the fit bends just below each amplitude
\* level of the trace and once past the histogram's range.
second_derivative_roots(s) ==
    {v - 1 : v \in Values(s)} \cup {LastBinEdge(s) + 1}

\* np.exp(p(x)): the fitted reverse cumulative count at x, the number of
\* samples at or above x.
CumulativeCount(s, x) == Cardinality({i \in DOMAIN s : s[i] >= x})

\* abs(first_derivative(p_root)): how steeply the count falls at p_root.
SlopeAt(s, x) == Cardinality({i \in DOMAIN s : s[i] < x})

\* The root of the derivative of the quadratic around 0 (its vertex).
QuadraticVertex(s) ==
    Max(Values(s)) - 2 * Min({v \in Values(s) \cup {Max(Values(s)) + 1} : v > 0})

\* q_root[0] if q_root>0 or q_root>bins[-1] else np.inf (<<>> is np.inf)
Infinity == <<>>
q_root_of(vertex, last_edge) ==
    IF vertex > 0 \/ vertex > last_edge THEN <<vertex>> ELSE Infinity

\* score = (1-phi)*p_root/q_root in thousandths, phi = arctan(m)/(pi/2)
\* taken as m/(1+m); a division by np.inf gives 0.
Score(slope, p_root, q_root) ==
    IF q_root = Infinity THEN 0
    ELSE ((1000 - (1000 * slope) \div (1 + slope)) * p_root) \div q_root[1]

\* One cell of src's compute_distributions() when the quadratic around 0 has
\* its vertex at `vertex`: [err, dict].
distribution_fitted(fast, vertex) ==
    LET sig == Clip(fast)
        edge == LastBinEdge(sig)
        final_roots == {r \in second_derivative_roots(sig) : r > 0 /\ r < edge}
    IN IF final_roots = {} THEN [err |-> "ValueError: min() arg is an empty sequence", dict |-> False]
       ELSE LET p_root == Min(final_roots)
                q_root == q_root_of(vertex, edge)
            IN [err |-> "ok",
                dict |-> Some([p_root |-> p_root,
                               q_root |-> q_root,
                               count |-> CumulativeCount(sig, p_root),
                               score |-> Score(SlopeAt(sig, p_root), p_root, q_root)])]

\* One cell of src's compute_distributions(): [err, dict].
distribution_src(fast) == distribution_fitted(fast, QuadraticVertex(Clip(fast)))

\* The loop of src's compute_distributions() from `cell` on; st = [err, dist].
RECURSIVE distributions_loop_src(_, _, _, _)
distributions_loop_src(cell, n, fast, st) ==
    IF cell >= n \/ st.err # "ok" THEN st
    ELSE IF cell + 1 > Len(fast) THEN [st EXCEPT !.err = "IndexError"]
    ELSE LET d == distribution_src(fast[cell + 1])
         IN IF d.err # "ok" THEN [st EXCEPT !.err = d.err]
            ELSE distributions_loop_src(cell + 1, n, fast,
                                        [st EXCEPT !.dist[cell + 1] = d.dict])

\* Data.compute_distributions() of src
compute_distributions_src ==
    /\ variant = "src"
    /\ UNCHANGED <<variant, signal, time, positions, settings, points, cells,
                   filtered_slow, filtered_fast, binarized_slow, binarized_fast,
                   activity, good_cells>>
    /\ IF IsFalse(filtered_slow)
       THEN /\ err' = "ValueError: No filtered data."
            /\ UNCHANGED distributions
       ELSE LET st == distributions_loop_src(0, AsInt(cells), filtered_fast[1],
                          [err |-> "ok",
                           dist |-> [i \in 1 .. AsInt(cells) |-> False]])
            IN /\ distributions' = Some(st.dist)
               /\ err' = st.err

\* The vertices np.roots(np.polyder(q, 1)) can return for a fitted
\* polynomial: below 0, inside the histogram's range, and beyond it.
VertexInputs == {0 - 4, 2, 20}

\* The loop of src's compute_distributions() from `cell` on, for a fit whose
\* quadratic has its vertex at `vertex`; st = [err, dist].
RECURSIVE distributions_loop_fitted(_, _, _, _, _)
distributions_loop_fitted(cell, n, fast, vertex, st) ==
    IF cell >= n \/ st.err # "ok" THEN st
    ELSE IF cell + 1 > Len(fast) THEN [st EXCEPT !.err = "IndexError"]
    ELSE LET d == distribution_fitted(fast[cell + 1], vertex)
         IN IF d.err # "ok" THEN [st EXCEPT !.err = d.err]
            ELSE distributions_loop_fitted(cell + 1, n, fast, vertex,
                                           [st EXCEPT !.dist[cell + 1] = d.dict])

\* Data.compute_distributions() of src, the vertex of the quadratic left to
\* the fit.
compute_distributions_fitted ==
    /\ variant = "src"
    /\ UNCHANGED <<variant, signal, time, positions, settings, points, cells,
                   filtered_slow, filtered_fast, binarized_slow, binarized_fast,
                   activity, good_cells>>
    /\ IF IsFalse(filtered_slow)
       THEN /\ err' = "ValueError: No filtered data."
            /\ UNCHANGED distributions
       ELSE \E vertex \in VertexInputs :
              LET st == distributions_loop_fitted(0, AsInt(cells), filtered_fast[1], vertex,
                            [err |-> "ok",
                             dist |-> [i \in 1 .. AsInt(cells) |-> False]])
              IN /\ distributions' = Some(st.dist)
                 /\ err' = st.err

-----------------------------------------------------------------------------
\* Exclude.

STD_RATIO == 2

\* skew(spikes) < threshold, for a positive threshold: skew = CubeN3/VarN2^1.5.
\* A comparison with nan is False.
SkewBelow(m, threshold) ==
    /\ ~m.nan
    /\ VarN2(m) > 0
    /\ \/ CubeN3(m) <= 0
       \/ CubeN3(m) * CubeN3(m) <
              threshold * threshold * VarN2(m) * VarN2(m) * VarN2(m)

\* np.std(a) < ratio * np.std(b)
StdBelow(a, ratio, b) ==
    /\ ~a.nan /\ ~b.nan
    /\ VarN2(a) * b.n * b.n < ratio * ratio * VarN2(b) * a.n * a.n

\* x > np.std(noise): the threshold at one standard deviation.
AboveOneStd(x, noise) ==
    /\ ~IsNaN(x) /\ ~noise.nan
    /\ x > 0
    /\ x * x * noise.n * noise.n > VarN2(noise)

\* x > 3 * np.std(noise)
AboveThreeStd(x, noise) ==
    /\ ~IsNaN(x) /\ ~noise.nan
    /\ x > 0
    /\ x * x * noise.n * noise.n > 9 * VarN2(noise)

\* The flags as the loops see them, and the field after a loop wrote flags in
\* place (no loop runs while the field is still False: cells is False too).
FlagList(f) == IF IsFalse(f) THEN <<>> ELSE f[1]
FlagField(f, list) == IF IsFalse(f) THEN False ELSE Some(list)

\* distributions[cell][key]: the list must hold the cell and the dict the key.
DictError(dist, cell) ==
    IF cell + 1 > Len(dist) THEN "IndexError"
    ELSE IF IsFalse(dist[cell + 1]) THEN "KeyError"
    ELSE "ok"

\* The loop of autoexclude() storing its verdict in the flag, good or bad.
RECURSIVE autoexclude_loop_assigning(_, _, _, _, _)
autoexclude_loop_assigning(cell, n, dist, set, st) ==
    IF cell >= n \/ st.err # "ok" THEN st
    ELSE IF DictError(dist, cell) # "ok"
         THEN [st EXCEPT !.err = DictError(dist, cell)]
    ELSE LET d == dist[cell + 1][1].params
             bad == /\ SkewBelow(d.spikes_params, set.exclude.score_threshold)
                    /\ StdBelow(d.spikes_params, STD_RATIO, d.noise_params)
         IN autoexclude_loop_assigning(cell + 1, n, dist, set,
                [st EXCEPT !.good[cell + 1] = ~bad])

\* The loop of langerhans' autoexclude() from `cell` on; st = [err, good].
RECURSIVE autoexclude_loop_langerhans(_, _, _, _, _)
autoexclude_loop_langerhans(cell, n, dist, set, st) ==
    IF cell >= n \/ st.err # "ok" THEN st
    ELSE IF DictError(dist, cell) # "ok"
         THEN [st EXCEPT !.err = DictError(dist, cell)]
    ELSE LET d == dist[cell + 1][1].params
             bad == /\ SkewBelow(d.spikes_params, set.exclude.score_threshold)
                    /\ StdBelow(d.spikes_params, STD_RATIO, d.noise_params)
         IN autoexclude_loop_langerhans(cell + 1, n, dist, set,
                IF bad THEN [st EXCEPT !.good[cell + 1] = FALSE] ELSE st)

\* The loop of src's autoexclude() from `cell` on; st = [err, good].
RECURSIVE autoexclude_loop_src(_, _, _, _, _, _)
autoexclude_loop_src(cell, n, npoints, dist, set, st) ==
    IF cell >= n \/ st.err # "ok" THEN st
    ELSE IF DictError(dist, cell) # "ok"
         THEN [st EXCEPT !.err = DictError(dist, cell)]
    ELSE LET d == dist[cell + 1][1]
             bad == \/ d.score < 1000 * set.exclude.score_threshold
                    \/ 100 * d.count < set.exclude.spikes_threshold * npoints
         IN autoexclude_loop_src(cell + 1, n, npoints, dist, set,
                IF bad THEN [st EXCEPT !.good[cell + 1] = FALSE] ELSE st)

\* Data.autoexclude()
autoexclude ==
    /\ UNCHANGED <<variant, signal, time, positions, settings, points, cells,
                   filtered_slow, filtered_fast, distributions,
                   binarized_slow, binarized_fast, activity>>
    /\ IF IsFalse(distributions)
       THEN /\ err' = "ValueError: No distributions."
            /\ UNCHANGED good_cells
       ELSE LET st0 == [err |-> "ok", good |-> FlagList(good_cells)]
                st == IF variant = "langerhans"
                      THEN autoexclude_loop_langerhans(0, AsInt(cells),
                               distributions[1], settings[1], st0)
                      ELSE autoexclude_loop_src(0, AsInt(cells), AsInt(points),
                               distributions[1], settings[1], st0)
            IN /\ good_cells' = FlagField(good_cells, st.good)
               /\ err' = st.err

\* exclude(i) and unexclude(i) checking the index the way a list does, so that
\* a negative index counts from the end.
set_flag_wrapping(i, flag) ==
    /\ UNCHANGED <<variant, signal, time, positions, settings, points, cells,
                   filtered_slow, filtered_fast, distributions,
                   binarized_slow, binarized_fast, activity>>
    /\ IF i >= AsInt(cells) \/ i < -AsInt(cells)
       THEN /\ err' = "ValueError: Cell not in range."
            /\ UNCHANGED good_cells
       ELSE /\ good_cells' = Some([good_cells[1] EXCEPT
                                      ![(i % AsInt(cells)) + 1] = flag])
            /\ err' = "ok"

\* The body shared by Data.exclude(i) and Data.unexclude(i).
set_flag(i, flag) ==
    /\ UNCHANGED <<variant, signal, time, positions, settings, points, cells,
                   filtered_slow, filtered_fast, distributions,
                   binarized_slow, binarized_fast, activity>>
    /\ IF i \notin Range(AsInt(cells))
       THEN /\ err' = "ValueError: Cell not in range."
            /\ UNCHANGED good_cells
       ELSE /\ good_cells' = Some([good_cells[1] EXCEPT ![i + 1] = flag])
            /\ err' = "ok"

\* Data.exclude(i)
exclude(i) == set_flag(i, FALSE)

\* Data.unexclude(i)
unexclude(i) == set_flag(i, TRUE)

\* Data.import_good_cells(cells) of langerhans
import_good_cells(flags) ==
    /\ variant = "langerhans"
    /\ UNCHANGED <<variant, signal, time, positions, settings, points, cells,
                   filtered_slow, filtered_fast, distributions,
                   binarized_slow, binarized_fast, activity>>
    /\ IF IsFalse(signal) \/ Len(flags) # AsInt(cells)
       THEN /\ err' = (IF IsFalse(signal) THEN "ValueError: No imported data!"
                         ELSE "ValueError: Cell number does not match.")
            /\ UNCHANGED good_cells
       ELSE /\ good_cells' = Some(flags)
            /\ err' = "ok"

\* Data.import_cells(cells) of src: with data imported, the misspelt name
\* `sells` raises before the flags are stored.
import_cells(flags) ==
    /\ variant = "src"
    /\ err' = (IF IsFalse(signal) THEN "ValueError: No imported data!" ELSE "NameError")
    /\ UNCHANGED <<variant, signal, time, positions, settings, points, cells,
                   filtered_slow, filtered_fast, distributions,
                   binarized_slow, binarized_fast, activity, good_cells>>

\* Flag files: every cell good, or every cell bad.
FlagInputs == {[i \in 1 .. n |-> b] : n \in CellCounts, b \in BOOLEAN}

-----------------------------------------------------------------------------
\* Binarize (fast).

\* np.where(trace > threshold, 1, 0)
Where(above(_), trace) == [i \in DOMAIN trace |-> IF above(trace[i]) THEN 1 ELSE 0]

\* The loop of langerhans' binarize_fast() from `cell` on; st = [err, bin, good].
RECURSIVE binarize_fast_loop_langerhans(_, _, _, _, _, _, _)
binarize_fast_loop_langerhans(cell, n, npoints, fast, dist, set, st) ==
    IF cell >= n \/ st.err # "ok" THEN st
    ELSE IF DictError(dist, cell) # "ok"
         THEN [st EXCEPT !.err = DictError(dist, cell)]
    ELSE IF cell + 1 > Len(fast) THEN [st EXCEPT !.err = "IndexError"]
    ELSE LET noise == dist[cell + 1][1].params.noise_params
             above(x) == AboveThreeStd(x, noise)
             row == Where(above, fast[cell + 1])
             e == SetRowError(st.bin, cell, row)
         IN IF e # "ok" THEN [st EXCEPT !.err = e]
            ELSE binarize_fast_loop_langerhans(cell + 1, n, npoints, fast, dist, set,
                    [st EXCEPT !.bin[cell + 1] = row,
                               !.good[cell + 1] =
                                   IF 100 * SumOver(row, 1, 1) <
                                          set.exclude.spikes_threshold * npoints
                                   THEN FALSE ELSE @])

\* The loop of src's binarize_fast() from `cell` on; st = [err, bin, good].
RECURSIVE binarize_fast_loop_src(_, _, _, _, _)
binarize_fast_loop_src(cell, n, fast, dist, st) ==
    IF cell >= n \/ st.err # "ok" THEN st
    ELSE IF DictError(dist, cell) # "ok"
         THEN [st EXCEPT !.err = DictError(dist, cell)]
    ELSE IF cell + 1 > Len(fast) THEN [st EXCEPT !.err = "IndexError"]
    ELSE LET threshold == dist[cell + 1][1].p_root
             above(x) == x > threshold
             row == Where(above, fast[cell + 1])
             e == SetRowError(st.bin, cell, row)
         IN IF e # "ok" THEN [st EXCEPT !.err = e]
            ELSE binarize_fast_loop_src(cell + 1, n, fast, dist,
                                        [st EXCEPT !.bin[cell + 1] = row])

\* Data.binarize_fast()
binarize_fast ==
    /\ UNCHANGED <<variant, signal, time, positions, settings, points, cells,
                   filtered_slow, filtered_fast, distributions,
                   binarized_slow, activity>>
    /\ IF IsFalse(distributions) \/ IsFalse(filtered_fast)
       THEN /\ err' = "ValueError: No distribution or filtered data."
            /\ UNCHANGED <<binarized_fast, good_cells>>
       ELSE LET st0 == [err |-> "ok",
                        bin |-> ZerosMatrix(AsInt(cells), AsInt(points)),
                        good |-> FlagList(good_cells)]
                st == IF variant = "langerhans"
                      THEN binarize_fast_loop_langerhans(0, AsInt(cells),
                               AsInt(points), filtered_fast[1], distributions[1],
                               settings[1], st0)
                      ELSE binarize_fast_loop_src(0, AsInt(cells),
                               filtered_fast[1], distributions[1], st0)
            IN /\ binarized_fast' = Some(st.bin)
               /\ good_cells' = FlagField(good_cells, st.good)
               /\ err' = st.err

-----------------------------------------------------------------------------
\* Binarize (slow).

\* np.heaviside(np.gradient(trace), 0): 1 where the trace rises (the gradient
\* is one-sided at both ends and central in between; only its sign is used).
heavisided_gradient(trace) ==
    LET n == Len(trace)
        g(i) == IF i = 1 THEN trace[2] - trace[1]
                ELSE IF i = n THEN trace[n] - trace[n - 1]
                ELSE trace[i + 1] - trace[i - 1]
    IN [i \in 1 .. n |-> IF g(i) > 0 THEN 1 ELSE 0]

\* The members of a set of numbers in increasing order.
RECURSIVE Sorted(_)
Sorted(S) == IF S = {} THEN <<>> ELSE <<Min(S)>> \o Sorted(S \ {Min(S)})

\* Data.__search_sequence(arr, seq) for a sequence of two: the 0-based indices
\* i with arr[i], arr[i+1] = seq.
search_sequence(arr, seq) ==
    {i \in Range(Len(arr) - 1) : arr[i + 1] = seq[1] /\ arr[i + 2] = seq[2]}

\* np.floor(np.linspace(first, first + 6, n, endpoint=False))[k]
LinspaceFloor(first, n, k) == first + (6 * k) \div n

\* The labels langerhans writes between the extremes, from pair i on.
RECURSIVE label_pairs_langerhans(_, _, _, _)
label_pairs_langerhans(row, extremes, i, reverse_mode) ==
    IF i >= Len(extremes) - 1 THEN row
    ELSE LET e1 == extremes[i + 1]
             e2 == extremes[i + 2]
             first == IF (i % 2) = (IF reverse_mode THEN 1 ELSE 0) THEN 1 ELSE 7
         IN label_pairs_langerhans(
                [j \in DOMAIN row |->
                    IF e1 <= j - 1 /\ j - 1 < e2
                    THEN LinspaceFloor(first, e2 - e1, j - 1 - e1) ELSE row[j]],
                extremes, i + 1, reverse_mode)

\* row[lo:] = 0 and row[:hi] = 0 (0-based slices)
ZeroFrom(row, lo) == [j \in DOMAIN row |-> IF j - 1 >= lo THEN 0 ELSE row[j]]
ZeroBefore(row, hi) == [j \in DOMAIN row |-> IF j - 1 < hi THEN 0 ELSE row[j]]

\* The loop of langerhans' binarize_slow() from `cell` on; st = [err, bin].
RECURSIVE binarize_slow_loop_langerhans(_, _, _, _)
binarize_slow_loop_langerhans(cell, n, slow, st) ==
    IF cell >= n \/ st.err # "ok" THEN st
    ELSE IF cell + 1 > Len(slow) THEN [st EXCEPT !.err = "IndexError"]
    ELSE LET h == heavisided_gradient(slow[cell + 1])
             minima == Sorted(search_sequence(h, <<0, 1>>))
             maxima == Sorted(search_sequence(h, <<1, 0>>))
             extremes == Sorted(Values(minima) \cup Values(maxima))
         IN IF minima = <<>> \/ maxima = <<>> THEN [st EXCEPT !.err = "IndexError"]
            ELSE LET reverse_mode == ~(minima[1] < maxima[1])
                     row0 == ZeroBefore(st.bin[cell + 1], extremes[1])
                     row1 == label_pairs_langerhans(row0, extremes, 0, reverse_mode)
                     row2 == ZeroFrom(row1, extremes[Len(extremes)])
                 IN binarize_slow_loop_langerhans(cell + 1, n, slow,
                        [st EXCEPT !.bin[cell + 1] = row2])

\* The phase src writes at 0-based offset d of an interval: the phi in 0..5
\* with floor(interval/6*phi) <= d < floor(interval/6*(phi+1)).
PhaseAt(interval, d) ==
    CHOOSE phi \in 0 .. 5 :
        /\ (interval * phi) \div 6 <= d
        /\ d < (interval * (phi + 1)) \div 6

\* The labels src writes up to each extreme, from extreme k on.
RECURSIVE label_extremes_src(_, _, _, _, _)
label_extremes_src(row, extremes, k, counter, up) ==
    IF k > Len(extremes) THEN row
    ELSE LET e == extremes[k]
             add == IF up # 0 THEN 1 ELSE 7
         IN label_extremes_src(
                [j \in DOMAIN row |->
                    IF counter <= j - 1 /\ j - 1 < e
                    THEN PhaseAt(e - counter, j - 1 - counter) + add ELSE row[j]],
                extremes, k + 1, e, (up + 1) % 2)

\* The loop of src's binarize_slow() from `cell` on; st = [err, bin].  `up`
\* is read from row 0 at column `cell`.
RECURSIVE binarize_slow_loop_src(_, _, _, _, _)
binarize_slow_loop_src(cell, n, npoints, slow, st) ==
    IF cell >= n \/ st.err # "ok" THEN st
    ELSE IF cell + 1 > Len(slow) THEN [st EXCEPT !.err = "IndexError"]
    ELSE LET h == heavisided_gradient(slow[cell + 1])
             e0 == SetRowError(st.bin, cell, h)
         IN IF e0 # "ok" THEN [st EXCEPT !.err = e0]
            ELSE LET bin1 == [st.bin EXCEPT ![cell + 1] = h]
                     extremes == Sorted({i \in 1 .. npoints - 1 : h[i + 1] # h[i]})
                 IN IF cell + 1 > npoints
                    THEN [st EXCEPT !.bin = bin1, !.err = "IndexError"]
                    ELSE LET up == bin1[1][cell + 1]
                             row1 == label_extremes_src(h, extremes, 1, 0, up)
                             bin2 == [bin1 EXCEPT ![cell + 1] = row1]
                         IN IF extremes = <<>>
                            THEN [st EXCEPT !.bin = bin2, !.err = "IndexError"]
                            ELSE binarize_slow_loop_src(cell + 1, n, npoints, slow,
                                    [st EXCEPT !.bin =
                                        [bin2 EXCEPT ![cell + 1] =
                                            ZeroFrom(ZeroBefore(row1, extremes[1]),
                                                     extremes[Len(extremes)])]])

\* Data.binarize_slow()
binarize_slow ==
    /\ UNCHANGED <<variant, signal, time, positions, settings, points, cells,
                   filtered_slow, filtered_fast, distributions,
                   binarized_fast, activity, good_cells>>
    /\ IF IsFalse(filtered_slow)
       THEN /\ err' = "ValueError: No filtered data."
            /\ UNCHANGED binarized_slow
       ELSE LET st0 == [err |-> "ok",
                        bin |-> ZerosMatrix(AsInt(cells), AsInt(points))]
                st == IF variant = "langerhans"
                      THEN binarize_slow_loop_langerhans(0, AsInt(cells),
                               filtered_slow[1], st0)
                      ELSE binarize_slow_loop_src(0, AsInt(cells), AsInt(points),
                               filtered_slow[1], st0)
            IN /\ binarized_slow' = Some(st.bin)
               /\ err' = st.err

-----------------------------------------------------------------------------
\* Activity (langerhans).

\* np.cumsum(data)
CumSum(s) == [i \in DOMAIN s |-> SumOver(SubSeq(s, 1, i), 1, 1)]

\* cumsum[cumsum < 0.1*cumsum[-1]].size / sampling, in ms
lower_limit(cumsum, sampling) ==
    (Cardinality({i \in DOMAIN cumsum : 10 * cumsum[i] < cumsum[Len(cumsum)]})
        * 1000) \div sampling

\* (cumsum.size - cumsum[cumsum > 0.9*cumsum[-1]].size) / sampling, in ms
upper_limit(cumsum, sampling) ==
    ((Len(cumsum) -
        Cardinality({i \in DOMAIN cumsum : 10 * cumsum[i] > 9 * cumsum[Len(cumsum)]}))
        * 1000) \div sampling

\* The random state differential_evolution draws from when autolimit() runs.
Seeds == {"early", "late"}

\* res.x[1:] of differential_evolution: the optimiser may return any point of
\* its box, [0, lower_limit+1] for t_start and [upper_limit-1, time[-1]] for
\* t_end (seconds).  The random state picks the end of the range t_start is
\* at; t_end, which nothing reads, is at the end of the axis.
box_fit(train, t, sampling, seed) ==
    LET cumsum == CumSum(train)
    IN <<IF seed = "early" THEN 0 ELSE lower_limit(cumsum, sampling) + 1000,
         t[Len(t)]>>

\* The loop of autolimit() comparing the onset, in seconds, with the
\* stimulation frame itself.
RECURSIVE autolimit_loop_in_frames(_, _, _, _, _, _, _)
autolimit_loop_in_frames(cell, n, bin, t, set, seed, st) ==
    IF cell >= n \/ st.err # "ok" THEN st
    ELSE IF cell + 1 > Len(bin) THEN [st EXCEPT !.err = "IndexError"]
    ELSE IF Len(bin[cell + 1]) # Len(t) THEN [st EXCEPT !.err = "ValueError"]
    ELSE LET fit == box_fit(bin[cell + 1], t, set.sampling, seed)
         IN autolimit_loop_in_frames(cell + 1, n, bin, t, set, seed,
               [st EXCEPT !.act = Append(@, fit),
                          !.good[cell + 1] =
                              IF fit[1] < set.stimulation[1] * 1000
                              THEN FALSE ELSE @])

\* The loop of autolimit() from `cell` on; st = [err, act, good].
RECURSIVE autolimit_loop(_, _, _, _, _, _, _)
autolimit_loop(cell, n, bin, t, set, seed, st) ==
    IF cell >= n \/ st.err # "ok" THEN st
    ELSE IF cell + 1 > Len(bin) THEN [st EXCEPT !.err = "IndexError"]
    ELSE IF Len(bin[cell + 1]) # Len(t) THEN [st EXCEPT !.err = "ValueError"]
    ELSE LET fit == box_fit(bin[cell + 1], t, set.sampling, seed)
         IN autolimit_loop(cell + 1, n, bin, t, set, seed,
               [st EXCEPT !.act = Append(@, fit),
                          !.good[cell + 1] =
                              IF fit[1] < (set.stimulation[1] * 1000) \div set.sampling
                              THEN FALSE ELSE @])

\* Data.autolimit()
autolimit ==
    /\ variant = "langerhans"
    /\ UNCHANGED <<variant, signal, time, positions, settings, points, cells,
                   filtered_slow, filtered_fast, distributions,
                   binarized_slow, binarized_fast>>
    /\ IF IsFalse(binarized_fast)
       THEN /\ err' = "ValueError: No binarized data."
            /\ UNCHANGED <<activity, good_cells>>
       ELSE \E seed \in Seeds :
               LET st == autolimit_loop(0, AsInt(cells), binarized_fast[1],
                                        time[1], settings[1], seed,
                                        [err |-> "ok", act |-> <<>>,
                                         good |-> FlagList(good_cells)])
               IN /\ activity' = Some(st.act)
                  /\ good_cells' = FlagField(good_cells, st.good)
                  /\ err' = st.err

-----------------------------------------------------------------------------
\* Data.is_analyzed()
is_analyzed ==
    IF IsFalse(filtered_slow) \/ IsFalse(filtered_fast) THEN FALSE
    ELSE IF IsFalse(distributions) THEN FALSE
    ELSE IF IsFalse(binarized_slow) \/ IsFalse(binarized_fast) THEN FALSE
    ELSE IF IsFalse(good_cells) THEN FALSE
    ELSE IF variant = "langerhans" /\ IsFalse(activity) THEN FALSE
    ELSE TRUE

-----------------------------------------------------------------------------
Next ==
    \/ \E s \in SeriesInputs : Fresh /\ import_data_langerhans(s) /\ UNCHANGED controller
    \/ \E s \in SeriesInputs, p \in PositionInputs, c \in SettingsInputs :
          Fresh /\ import_data_src(s, p, c) /\ UNCHANGED controller
    \/ \E c \in SettingsInputs : import_settings(c) /\ UNCHANGED controller
    \/ reset_computations /\ UNCHANGED controller
    \/ filter /\ UNCHANGED controller
    \/ smooth_fast /\ UNCHANGED controller
    \/ compute_distributions_langerhans /\ UNCHANGED controller
    \/ compute_distributions_src /\ UNCHANGED controller
    \/ autoexclude /\ UNCHANGED controller
    \/ \E i \in IndexInputs : exclude(i) /\ UNCHANGED controller
    \/ \E i \in IndexInputs : unexclude(i) /\ UNCHANGED controller
    \/ \E f \in FlagInputs : import_good_cells(f) /\ UNCHANGED controller
    \/ \E f \in FlagInputs : import_cells(f) /\ UNCHANGED controller
    \/ binarize_fast /\ UNCHANGED controller
    \/ binarize_slow /\ UNCHANGED controller
    \/ autolimit /\ UNCHANGED controller

Spec == Init /\ [][Next]_vars

\* The calls of a session in which the configuration is never replaced.
NextFixedSettings ==
    \/ \E s \in SeriesInputs : Fresh /\ import_data_langerhans(s) /\ UNCHANGED controller
    \/ \E s \in SeriesInputs, p \in PositionInputs, c \in SettingsInputs :
          Fresh /\ import_data_src(s, p, c) /\ UNCHANGED controller
    \/ reset_computations /\ UNCHANGED controller
    \/ filter /\ UNCHANGED controller
    \/ smooth_fast /\ UNCHANGED controller
    \/ compute_distributions_langerhans /\ UNCHANGED controller
    \/ compute_distributions_src /\ UNCHANGED controller
    \/ autoexclude /\ UNCHANGED controller
    \/ \E i \in IndexInputs : exclude(i) /\ UNCHANGED controller
    \/ \E i \in IndexInputs : unexclude(i) /\ UNCHANGED controller
    \/ \E f \in FlagInputs : import_good_cells(f) /\ UNCHANGED controller
    \/ \E f \in FlagInputs : import_cells(f) /\ UNCHANGED controller
    \/ binarize_fast /\ UNCHANGED controller
    \/ binarize_slow /\ UNCHANGED controller
    \/ autolimit /\ UNCHANGED controller

SpecFixedSettings == Init /\ [][NextFixedSettings]_vars

\* The stages run on recordings of every mix of cells.
NextWide ==
    \/ \E s \in WideRecordings : Fresh /\ import_data_langerhans(s) /\ UNCHANGED controller
    \/ \E s \in WideRecordings, p \in PositionInputs, c \in WideSettingsInputs :
          Fresh /\ import_data_src(s, p, c) /\ UNCHANGED controller
    \/ \E c \in WideSettingsInputs : import_settings(c) /\ UNCHANGED controller
    \/ filter /\ UNCHANGED controller
    \/ compute_distributions_langerhans /\ UNCHANGED controller
    \/ compute_distributions_src /\ UNCHANGED controller
    \/ binarize_fast /\ UNCHANGED controller
    \/ binarize_slow /\ UNCHANGED controller

SpecWide == Init /\ [][NextWide]_vars

\* Sessions that load settings files: recordings are imported and cells
\* excluded, and no stage runs.
NextSettings ==
    \/ \E s \in SeriesInputs : Fresh /\ import_data_langerhans(s) /\ UNCHANGED controller
    \/ \E s \in SeriesInputs, p \in PositionInputs, c \in SettingsInputs :
          Fresh /\ import_data_src(s, p, c) /\ UNCHANGED controller
    \/ \E c \in KeySettingsInputs : import_settings(c) /\ UNCHANGED controller
    \/ reset_computations /\ UNCHANGED controller
    \/ \E i \in IndexInputs : exclude(i) /\ UNCHANGED controller
    \/ \E i \in IndexInputs : unexclude(i) /\ UNCHANGED controller

SpecSettings == Init /\ [][NextSettings]_vars

\* Sessions of src in which the polynomial fit is free to put the vertex of
\* the quadratic anywhere.
NextFit ==
    \/ \E s \in SeriesInputs, p \in PositionInputs, c \in SettingsInputs :
          Fresh /\ import_data_src(s, p, c) /\ UNCHANGED controller
    \/ filter /\ UNCHANGED controller
    \/ compute_distributions_fitted /\ UNCHANGED controller

SpecFit == Init /\ [][NextFit]_vars

\* Sessions that import a recording again after a stage has run: neither
\* import_data() looks at what was computed from the previous recording.
NextReimport ==
    \/ \E s \in SeriesInputs : import_data_langerhans(s) /\ UNCHANGED controller
    \/ \E s \in SeriesInputs, p \in PositionInputs, c \in SettingsInputs :
          import_data_src(s, p, c) /\ UNCHANGED controller
    \/ filter /\ UNCHANGED controller
    \/ binarize_slow /\ UNCHANGED controller

SpecReimport == Init /\ [][NextReimport]_vars

-----------------------------------------------------------------------------
\* The Controller of src (controller.py): each action is one handler, with
\* the calls it makes on its Data object.  draw_fig() only reads; `err` is
\* the exception the handler printed or let through.

\* np.loadtxt(series_location)[:-1,:]
DropLastRow(m) == SubSeq(m, 1, Len(m) - 1)

\* Controller.import_data(): indexing a 1-D file with [:-1,:] raises before
\* Data is called; an exception of Data.import_data() is swallowed.
controller_import_data(file, pos, set) ==
    /\ variant = "src"
    /\ UNCHANGED current_number
    /\ IF file.ndim # 2
       THEN /\ err' = "IndexError"
            /\ UNCHANGED <<data, variant, current_stage>>
       ELSE /\ import_data_src([file EXCEPT !.data = DropLastRow(file.data)], pos, set)
            /\ current_stage' = (IF err' = "ok" THEN 1 ELSE current_stage)

\* Controller.filter_click()
filter_click ==
    /\ variant = "src"
    /\ UNCHANGED current_number
    /\ IF current_stage = 0
       THEN UNCHANGED <<data, variant, err, current_stage>>
       ELSE IF ~IsFalse(filtered_slow) \/ ~IsFalse(filtered_fast)
       THEN /\ current_stage' = 2
            /\ UNCHANGED <<data, variant, err>>
       ELSE /\ filter
            /\ current_stage' = (IF err' = "ok" THEN 2 ELSE current_stage)

\* Controller.distributions_click()
distributions_click ==
    /\ variant = "src"
    /\ UNCHANGED current_number
    /\ IF current_stage = 0
       THEN UNCHANGED <<data, variant, err, current_stage>>
       ELSE IF ~IsFalse(distributions)
       THEN /\ current_stage' = 3
            /\ UNCHANGED <<data, variant, err>>
       ELSE /\ compute_distributions_src
            /\ current_stage' = (IF err' = "ok" THEN 3 ELSE current_stage)

\* What Data.binarize_slow() of src ends with in this state: [err, bin], bin
\* the value of binarized_slow after the call.
binarize_slow_src ==
    IF IsFalse(filtered_slow)
    THEN [err |-> "ValueError: No filtered data.", bin |-> binarized_slow]
    ELSE LET st == binarize_slow_loop_src(0, AsInt(cells), AsInt(points),
                       filtered_slow[1],
                       [err |-> "ok",
                        bin |-> ZerosMatrix(AsInt(cells), AsInt(points))])
         IN [err |-> st.err, bin |-> Some(st.bin)]

\* What Data.binarize_fast() of src ends with in this state: [err, bin], bin
\* the value of binarized_fast after the call.  It reads nothing that
\* binarize_slow() writes.
binarize_fast_src ==
    IF IsFalse(distributions) \/ IsFalse(filtered_fast)
    THEN [err |-> "ValueError: No distribution or filtered data.",
          bin |-> binarized_fast]
    ELSE LET st == binarize_fast_loop_src(0, AsInt(cells), filtered_fast[1],
                       distributions[1],
                       [err |-> "ok",
                        bin |-> ZerosMatrix(AsInt(cells), AsInt(points)),
                        good |-> FlagList(good_cells)])
         IN [err |-> st.err, bin |-> Some(st.bin)]

\* Controller.binarize_click(): binarize_slow(), then binarize_fast() if the
\* first returned, then the stage if both returned.
binarize_click ==
    /\ variant = "src"
    /\ UNCHANGED <<variant, signal, time, positions, settings, points, cells,
                   filtered_slow, filtered_fast, distributions, activity,
                   good_cells, current_number>>
    /\ IF current_stage = 0
       THEN UNCHANGED <<binarized_slow, binarized_fast, err, current_stage>>
       ELSE IF ~IsFalse(binarized_slow) \/ ~IsFalse(binarized_fast)
       THEN /\ current_stage' = 4
            /\ UNCHANGED <<binarized_slow, binarized_fast, err>>
       ELSE LET slow == binarize_slow_src
                fast == binarize_fast_src
            IN /\ binarized_slow' = slow.bin
               /\ IF slow.err # "ok"
                  THEN /\ err' = slow.err
                       /\ UNCHANGED <<binarized_fast, current_stage>>
                  ELSE /\ binarized_fast' = fast.bin
                       /\ err' = fast.err
                       /\ current_stage' = (IF fast.err = "ok" THEN 4 ELSE current_stage)

\* Controller.previous_click()
previous_click ==
    /\ variant = "src"
    /\ current_number' = (IF current_stage # 0 /\ current_number > 0
                          THEN current_number - 1 ELSE current_number)
    /\ UNCHANGED <<data, variant, err, current_stage>>

\* Controller.next_click()
next_click ==
    /\ variant = "src"
    /\ current_number' = (IF current_stage # 0 /\ current_number < AsInt(cells) - 1
                          THEN current_number + 1 ELSE current_number)
    /\ UNCHANGED <<data, variant, err, current_stage>>

\* Controller.exclude_click()
exclude_click ==
    /\ variant = "src"
    /\ UNCHANGED controller
    /\ IF current_stage = 0
       THEN UNCHANGED <<data, variant, err>>
       ELSE exclude(current_number)

\* Controller.unexclude_click()
unexclude_click ==
    /\ variant = "src"
    /\ UNCHANGED controller
    /\ IF current_stage = 0
       THEN UNCHANGED <<data, variant, err>>
       ELSE unexclude(current_number)

\* Controller.autoexclude_click()
autoexclude_click ==
    /\ variant = "src"
    /\ UNCHANGED controller
    /\ IF current_stage = 0
       THEN UNCHANGED <<data, variant, err>>
       ELSE autoexclude

\* Controller.edit_settings(): opens the settings window, or returns.
edit_settings ==
    /\ variant = "src"
    /\ UNCHANGED vars

\* Controller.apply_parameters_click(): import_settings(), then
\* reset_computations(), then stage 1; nothing is caught.  The button is in
\* the window edit_settings() opens, which it does not before an import.
apply_parameters_click(set) ==
    /\ variant = "src"
    /\ current_stage # 0
    /\ settings' = Some(set)
    /\ filtered_slow' = False
    /\ filtered_fast' = False
    /\ distributions' = False
    /\ binarized_slow' = False
    /\ binarized_fast' = False
    /\ good_cells' = Some(Ones(AsInt(cells)))
    /\ err' = "ok"
    /\ current_stage' = 1
    /\ UNCHANGED <<variant, signal, time, positions, points, cells, activity,
                   current_number>>

NextController ==
    \/ \E f \in SeriesFiles, p \in PositionInputs, c \in SettingsInputs :
          controller_import_data(f, p, c)
    \/ filter_click
    \/ distributions_click
    \/ binarize_click
    \/ previous_click
    \/ next_click
    \/ exclude_click
    \/ unexclude_click
    \/ autoexclude_click
    \/ edit_settings
    \/ \E c \in SettingsInputs : apply_parameters_click(c)

SpecController == Init /\ [][NextController]_vars

-----------------------------------------------------------------------------
\* The contract of the stage operations.

Exists(f) == ~IsFalse(f)

\* compute_distributions() of either class.
compute_distributions ==
    compute_distributions_langerhans \/ compute_distributions_src

\* A call that raised and left every field of the object as it was.
Rejected == err' # "ok" /\ UNCHANGED data

\* C1: a stage called before the artifact it checks for exists raises and
\* changes no field: filter() without a recording, compute_distributions()
\* and binarize_slow() without filtered traces, binarize_fast() and
\* autoexclude() without distributions, autolimit() without a fast binarized
\* matrix.
C1_PreconditionsRaise ==
    [][/\ (IsFalse(signal) /\ filter) => Rejected
       /\ (IsFalse(filtered_slow) /\ compute_distributions) => Rejected
       /\ (IsFalse(filtered_slow) /\ binarize_slow) => Rejected
       /\ (IsFalse(distributions) /\ binarize_fast) => Rejected
       /\ (IsFalse(distributions) /\ autoexclude) => Rejected
       /\ (IsFalse(binarized_fast) /\ autolimit) => Rejected]_vars

\* autolimit() was refused on a pipeline that has distributions but no fast
\* binarized matrix, and no activity was written.
C1_Witness ==
    /\ err = "ValueError: No binarized data."
    /\ Exists(distributions)
    /\ IsFalse(binarized_fast)
    /\ IsFalse(activity)

\* C2 as stated: a binarized matrix (slow or fast) exists only if
\* distributions exist, and distributions exist only if both filtered
\* matrices exist.
C2_StageOrder ==
    /\ (Exists(binarized_slow) \/ Exists(binarized_fast)) => Exists(distributions)
    /\ Exists(distributions) => (Exists(filtered_slow) /\ Exists(filtered_fast))

\* C2, amended: the fast binarized matrix exists only if distributions exist,
\* the slow binarized matrix exists only if the filtered matrices exist, and
\* distributions exist only if both filtered matrices exist.
C2_StageOrderAmended ==
    /\ Exists(binarized_fast) => Exists(distributions)
    /\ Exists(binarized_slow) => (Exists(filtered_slow) /\ Exists(filtered_fast))
    /\ Exists(distributions) => (Exists(filtered_slow) /\ Exists(filtered_fast))

\* The slow phases were binarized straight after filtering.
C2_Witness ==
    /\ Exists(binarized_slow)
    /\ IsFalse(distributions)
    /\ Exists(filtered_slow)
    /\ err = "ok"


\* Some derived artifact exists.
SomeDerived ==
    \/ Exists(filtered_slow) \/ Exists(filtered_fast) \/ Exists(distributions)
    \/ Exists(binarized_slow) \/ Exists(binarized_fast) \/ Exists(activity)

\* No derived artifact exists: the stage is Imported.
Cleared ==
    /\ IsFalse(filtered_slow) /\ IsFalse(filtered_fast) /\ IsFalse(distributions)
    /\ IsFalse(binarized_slow) /\ IsFalse(binarized_fast) /\ IsFalse(activity)

\* Every quality flag is good.
AllGood ==
    /\ Exists(good_cells)
    /\ \A i \in 1 .. Len(good_cells[1]) : good_cells[1][i]

\* C3: import_settings() with new settings, called while derived artifacts
\* exist, leaves no derived artifact and every quality flag good.
C3_ConfigChangeResets ==
    [][\A c \in SettingsInputs :
          (Exists(signal) /\ SomeDerived /\ settings # Some(c) /\ import_settings(c))
              => (Cleared' /\ AllGood')]_vars

\* C4: a stage called when its output exists changes no derived artifact and
\* no quality flag.
C4_ReinvokeIsNoOp ==
    [][(\/ Exists(filtered_slow) /\ Exists(filtered_fast) /\ filter
        \/ Exists(distributions) /\ compute_distributions
        \/ Exists(binarized_slow) /\ binarize_slow
        \/ Exists(binarized_fast) /\ binarize_fast
        \/ Exists(activity) /\ autolimit)
          => UNCHANGED derived]_vars

\* C5: reset_computations() on a pipeline with a recording leaves every
\* quality flag good and no derived artifact, so is_analyzed() is false, and
\* keeps the recording, the time axis, the cell count and the settings.
C5_ResetRestoresImported ==
    [][(Exists(signal) /\ reset_computations)
          => /\ Cleared'
             /\ AllGood'
             /\ ~is_analyzed'
             /\ UNCHANGED <<signal, time, cells, settings>>]_vars

\* A fully analysed recording with an excluded cell, which reset_computations()
\* takes back to the Imported stage.
C5_Witness ==
    /\ is_analyzed
    /\ ~AllGood
    /\ ENABLED (reset_computations /\ Cleared' /\ AllGood' /\ Exists(signal'))

\* Some cell's flag goes from bad to good in this step.
TurnsGood ==
    /\ Exists(good_cells) /\ Exists(good_cells')
    /\ \E i \in 1 .. Min({Len(good_cells[1]), Len(good_cells'[1])}) :
          ~good_cells[1][i] /\ good_cells'[1][i]

\* C6: a flag goes from bad to good only in a step of unexclude(),
\* reset_computations(), import_data() or import_good_cells(), and never in a
\* step of filter(), compute_distributions(), autoexclude(), binarize_slow(),
\* binarize_fast() or autolimit().
C6_OnlyOverridesTurnGood ==
    [][TurnsGood =>
         /\ \/ \E i \in IndexInputs : unexclude(i)
            \/ reset_computations
            \/ \E f \in FlagInputs : import_good_cells(f)
            \/ \E r \in SeriesInputs : import_data_langerhans(r)
            \/ \E r \in SeriesInputs, p \in PositionInputs, c \in SettingsInputs :
                  import_data_src(r, p, c)
         /\ ~(filter \/ compute_distributions \/ autoexclude
                \/ binarize_slow \/ binarize_fast \/ autolimit)]_vars

\* Every stage has run and a cell is still flagged bad.
C6_Witness ==
    /\ Exists(filtered_slow) /\ Exists(distributions)
    /\ Exists(binarized_slow) /\ Exists(binarized_fast)
    /\ Exists(good_cells)
    /\ \E i \in 1 .. Len(good_cells[1]) : ~good_cells[1][i]
    /\ err = "ok"

\* Only the flag of cell i changed in this step, to `flag`.
OnlyFlag(i, flag) ==
    /\ Exists(good_cells')
    /\ Len(good_cells'[1]) = Len(good_cells[1])
    /\ \A j \in 1 .. Len(good_cells[1]) :
          good_cells'[1][j] = (IF j = i + 1 THEN flag ELSE good_cells[1][j])
    /\ UNCHANGED <<signal, time, positions, settings, points, cells,
                   filtered_slow, filtered_fast, distributions,
                   binarized_slow, binarized_fast, activity>>

\* C7: for 0 <= i < cells, exclude(i) and unexclude(i) set flag i alone, to bad
\* and to good, and change nothing when the flag already has that value; for
\* any other index, and for every index before a recording is imported, they
\* raise and change nothing.
C7_ManualOverrides ==
    [][\A i \in IndexInputs :
          IF i \in Range(AsInt(cells))
          THEN /\ exclude(i) => /\ err' = "ok"
                                /\ OnlyFlag(i, FALSE)
                                /\ ~good_cells[1][i + 1] => UNCHANGED data
               /\ unexclude(i) => /\ err' = "ok"
                                  /\ OnlyFlag(i, TRUE)
                                  /\ good_cells[1][i + 1] => UNCHANGED data
          ELSE (exclude(i) \/ unexclude(i)) => Rejected]_vars

\* An index was refused before any recording was imported.
C7_Witness ==
    /\ err = "ValueError: Cell not in range."
    /\ IsFalse(signal)
    /\ IsFalse(cells)

\* The record of one cell holds every entry compute_distributions() writes.
DistributionComplete(d) ==
    /\ Exists(d)
    /\ variant = "langerhans" => d[1].hist

\* Every stage has produced its output for each cell of the recording.
FullyComputed ==
    LET n == Len(signal[1])
    IN /\ Len(filtered_slow[1]) = n /\ Len(filtered_fast[1]) = n
       /\ Len(binarized_slow[1]) = n /\ Len(binarized_fast[1]) = n
       /\ Len(distributions[1]) = n
       /\ \A cell \in 1 .. n : DistributionComplete(distributions[1][cell])
       /\ variant = "langerhans" => Len(activity[1]) = n

\* C8: whenever is_analyzed() is true, the filtered traces, the distribution
\* record, the binarized traces and (in langerhans) the activity window have
\* been computed for every cell of the recording.
C8_AnalyzedMeansComputed == is_analyzed => FullyComputed

\* C9: a call that raises changes no field of the object.
C9_FailureChangesNothing == [][err' # "ok" => UNCHANGED data]_vars

\* Some filtered fast trace has no root of the second derivative in range.
NoRootCell ==
    \E cell \in 1 .. Len(filtered_fast[1]) :
        distribution_src(filtered_fast[1][cell]).err # "ok"

\* C10: compute_distributions() on traces of which one has no root of the
\* second derivative in range completes, and every cell that has a root gets
\* the record it gets on its own.
C10_CellFailureContained ==
    [][(/\ variant = "src"
        /\ Exists(filtered_slow) /\ Exists(filtered_fast)
        /\ Len(filtered_fast[1]) = AsInt(cells)
        /\ NoRootCell
        /\ compute_distributions_src)
          => /\ err' = "ok"
             /\ \A cell \in 1 .. AsInt(cells) :
                   LET d == distribution_src(filtered_fast[1][cell])
                   IN d.err = "ok" => distributions'[1][cell] = d.dict]_vars

-----------------------------------------------------------------------------
\* The contract of the per-cell computations.

\* What the loop of binarize_slow() gives on the slow traces `slow`.
BinarizeSlowOf(slow) ==
    LET n == Len(slow)
        npoints == Len(slow[1])
        st0 == [err |-> "ok", bin |-> ZerosMatrix(n, npoints)]
    IN IF variant = "langerhans"
       THEN binarize_slow_loop_langerhans(0, n, slow, st0)
       ELSE binarize_slow_loop_src(0, n, npoints, slow, st0)

\* The slow traces of the recordings with as many cells as this one.
SlowAlternatives ==
    [1 .. Len(filtered_slow[1]) -> {k.slow : k \in TraceKinds}]

\* C11: the slow binarized trace binarize_slow() gives a cell is the one it
\* gives that cell in every recording with the same trace for the cell and
\* other traces for the other cells.
C11_CellsIndependent ==
    [][(Exists(filtered_slow) /\ err' = "ok" /\ binarize_slow)
          => \A alt \in SlowAlternatives :
                \A c \in 1 .. Len(alt) :
                    (alt[c] = filtered_slow[1][c] /\ BinarizeSlowOf(alt).err = "ok")
                        => BinarizeSlowOf(alt).bin[c] = binarized_slow'[1][c]]_vars

\* The fast trace of cell `cell` (1-based) is above the cell's threshold at
\* sample t: three standard deviations of the noise in langerhans, p_root in
\* src.
AboveThreshold(cell, t) ==
    LET x == filtered_fast[1][cell][t]
        d == distributions[1][cell][1]
    IN IF variant = "langerhans"
       THEN /\ ~IsNaN(x) /\ ~d.params.noise_params.nan
            /\ x > 0
            /\ x * x * d.params.noise_params.n * d.params.noise_params.n
                   > 9 * VarN2(d.params.noise_params)
       ELSE x > d.p_root

\* C12: after binarize_fast() the fast binarized matrix has one row per cell
\* (the object's cell count), each as long as the raw trace, and its entry for
\* a cell and a sample is 1
\* if the fast trace is strictly above the cell's threshold there and 0 if
\* not.
C12_FastIsThresholded ==
    [][(err' = "ok" /\ Exists(distributions) /\ Exists(filtered_fast) /\ binarize_fast)
          => LET bin == binarized_fast'[1]
             IN /\ Len(bin) = AsInt(cells)
                /\ \A cell \in 1 .. Len(bin) :
                      /\ Len(bin[cell]) = AsInt(points)
                      /\ Len(bin[cell]) = Len(signal[1][cell])
                      /\ \A t \in 1 .. Len(bin[cell]) :
                            bin[cell][t] = (IF AboveThreshold(cell, t) THEN 1 ELSE 0)]_vars

\* binarize_fast() has marked some samples of a cell and left others.
C12_Witness ==
    /\ err = "ok"
    /\ Exists(binarized_fast)
    /\ Exists(distributions)
    /\ Len(binarized_fast[1]) = MaxCells
    /\ \E cell \in 1 .. Len(binarized_fast[1]) :
          /\ \E t \in 1 .. Len(binarized_fast[1][cell]) : binarized_fast[1][cell][t] = 1
          /\ \E t \in 1 .. Len(binarized_fast[1][cell]) : binarized_fast[1][cell][t] = 0

\* C13: binarize_fast() flags a cell bad when the fraction of 1s in its
\* binarized fast trace is below the spike fraction of the settings, and
\* leaves the flag of every other cell as it was.
C13_SparseCellsFlagged ==
    [][(/\ err' = "ok"
        /\ Exists(distributions) /\ Exists(filtered_fast) /\ Exists(good_cells)
        /\ binarize_fast)
          => \A cell \in 1 .. Len(binarized_fast'[1]) :
                LET row == binarized_fast'[1][cell]
                IN IF 100 * SumOver(row, 1, 1)
                          < settings[1].exclude.spikes_threshold * Len(row)
                   THEN ~good_cells'[1][cell]
                   ELSE good_cells'[1][cell] = good_cells[1][cell]]_vars

\* The rising/falling indicator of the slow trace of cell `cell` (1-based).
Indicator(cell) == heavisided_gradient(filtered_slow[1][cell])

\* The extremes of a cell: the 0-based indices i >= 1 at which the indicator
\* differs from its value at i - 1.
Extremes(cell) ==
    {j - 1 : j \in {k \in 2 .. Len(Indicator(cell)) :
                       Indicator(cell)[k] # Indicator(cell)[k - 1]}}

\* A step of binarize_slow() on filtered traces that returns normally.
BinarizedSlow == err' = "ok" /\ Exists(filtered_slow) /\ binarize_slow

\* C14: after binarize_slow() every row is as long as the raw trace, every
\* sample before the first extreme and at or after the last is labelled 0,
\* and every sample from the first extreme up to the last carries a label in
\* 1..12.
C14_LabelsBetweenExtremes ==
    [][BinarizedSlow
          => \A cell \in 1 .. Len(binarized_slow'[1]) :
                LET row == binarized_slow'[1][cell]
                    E == Extremes(cell)
                IN /\ Len(row) = Len(signal[1][cell])
                   /\ E # {} =>
                         \A t \in 0 .. Len(row) - 1 :
                             IF t < Min(E) \/ t >= Max(E)
                             THEN row[t + 1] = 0
                             ELSE row[t + 1] \in 1 .. 12]_vars

\* C15: binarize_slow() on traces of which one has fewer than two extremes
\* returns normally and labels that whole trace 0.
C15_FewExtremesAllZero ==
    [][(/\ Exists(filtered_slow)
        /\ Len(filtered_slow[1]) = AsInt(cells)
        /\ \E cell \in 1 .. AsInt(cells) : Cardinality(Extremes(cell)) < 2
        /\ binarize_slow)
          => /\ err' = "ok"
             /\ \A cell \in 1 .. AsInt(cells) :
                   Cardinality(Extremes(cell)) < 2
                       => \A t \in 1 .. Len(binarized_slow'[1][cell]) :
                              binarized_slow'[1][cell][t] = 0]_vars

\* C16: between the first and the last extreme a sample is labelled in 1..6
\* where the trace is rising and in 7..12 where it is falling, and the labels
\* do not decrease from a sample to the next within a segment.
C16_HalvesFollowDirection ==
    [][BinarizedSlow
          => \A cell \in 1 .. Len(binarized_slow'[1]) :
                LET row == binarized_slow'[1][cell]
                    E == Extremes(cell)
                IN E # {} =>
                     \A t \in Min(E) .. Max(E) - 1 :
                         /\ row[t + 1] \in (IF Indicator(cell)[t + 1] = 1
                                            THEN 1 .. 6 ELSE 7 .. 12)
                         /\ (t + 1 < Max(E) /\ (t + 1) \notin E)
                                => row[t + 1] <= row[t + 2]]_vars

\* The fitted onset of a cell's activity, in ms, is before the stimulation
\* onset: the stimulation frame divided by the sampling rate.
OnsetBeforeStimulation(t_start) ==
    t_start * settings[1].sampling < settings[1].stimulation[1] * 1000

\* C17: after autolimit() every cell whose fitted onset is before the
\* stimulation onset is flagged bad, and the flag of every other cell is as
\* it was.
C17_EarlyOnsetFlagged ==
    [][(err' = "ok" /\ Exists(binarized_fast) /\ autolimit)
          => /\ Len(activity'[1]) = AsInt(cells)
             /\ \A cell \in 1 .. Len(activity'[1]) :
                   IF OnsetBeforeStimulation(activity'[1][cell][1])
                   THEN ~good_cells'[1][cell]
                   ELSE good_cells'[1][cell] = good_cells[1][cell]]_vars

\* autolimit() has fitted every cell of a full recording: one still good with
\* its onset after the stimulation, or one bad with its onset before it.
C17_Witness ==
    /\ err = "ok"
    /\ Exists(activity)
    /\ Len(activity[1]) = MaxCells
    /\ \E cell \in 1 .. Len(activity[1]) :
          ~OnsetBeforeStimulation(activity[1][cell][1]) /\ good_cells[1][cell]

\* A settings file with every required key.
CompleteSettings(set) ==
    /\ \A k \in {"sampling", "stimulation", "filter", "exclude", "distance"} :
          k \in DOMAIN set
    /\ \A k \in {"slow", "fast", "plot"} : k \in DOMAIN set.filter
    /\ \A k \in {"score_threshold", "spikes_threshold"} : k \in DOMAIN set.exclude

\* C18: import_settings() of a settings file from which a required key is
\* absent raises and leaves the stored settings as they were.
C18_MissingKeyRejected ==
    [][\A c \in KeySettingsInputs :
          (~CompleteSettings(c) /\ import_settings(c))
              => (err' # "ok" /\ UNCHANGED settings)]_vars

\* C20: compute_distributions() keeps q_root finite only when it is above 0
\* and at most the largest bin edge of the cell's histogram; an infinite
\* q_root gives the score 0.
C20_RootWithinRange ==
    (variant = "src" /\ Exists(distributions) /\ Exists(filtered_fast)) =>
        \A cell \in 1 .. Len(distributions[1]) :
            Exists(distributions[1][cell]) =>
                LET d == distributions[1][cell][1]
                IN IF d.q_root = Infinity THEN d.score = 0
                   ELSE /\ d.q_root[1] > 0
                        /\ d.q_root[1] <= LastBinEdge(Clip(filtered_fast[1][cell]))

\* C19: every derived matrix that exists has one row per cell of the
\* recording imported last, each row as long as its traces, also after a
\* second import of a recording of another size.
C19_DerivedMatchRecording ==
    Exists(cells) =>
        \A m \in {filtered_slow, filtered_fast, binarized_slow, binarized_fast} :
            Exists(m) =>
                /\ Len(m[1]) = AsInt(cells)
                /\ \A row \in 1 .. Len(m[1]) : Len(m[1][row]) = AsInt(points)

\* C21: compute_distributions() only reads the filtered traces: both
\* filtered matrices are the same after the call as before it.
C21_DistributionsOnlyRead ==
    [][(Exists(filtered_fast) /\ compute_distributions)
          => UNCHANGED <<filtered_slow, filtered_fast>>]_vars

\* C22: the controller's stage is only ever one whose artifacts exist in
\* Data: stage 2 with both filtered matrices, stage 3 with the distributions,
\* stage 4 with both binarized matrices.
C22_StageHasArtifacts ==
    /\ current_stage = 2 => Exists(filtered_slow) /\ Exists(filtered_fast)
    /\ current_stage = 3 => Exists(distributions)
    /\ current_stage = 4 => Exists(binarized_slow) /\ Exists(binarized_fast)

====
